---- MODULE Spec2Model ----
(***************************************************************************)
(* Model of matches.py: the football fixture aggregator.  Strings are      *)
(* sequences of characters (one-character TLA+ strings, or a named token    *)
(* for a non-ASCII code point), so that lowercasing, substring tests,       *)
(* tokenising and the similarity ratios are computed, not assumed.          *)
(***************************************************************************)
EXTENDS Integers, Sequences, FiniteSets, TLC

VARIABLES
    pc,           \* position of the script: load, main, wtm, dl, af, merge, sort, write, done
    bannedFile,   \* banned.txt: [exists, lines]
    banned,       \* BANNED_TOURNAMENTS_LOWER
    page,         \* OneFootball: the matchCards of the page, in page order
    wtmPage,      \* WherestheMatch: the fixture rows of the page
    dlPage,       \* DaddyLive: the soccer events of the schedule
    afPage,       \* AllFootball: the entries of currentListData
    onefootball,  \* result of fetch_onefootball_matches()
    wtm,          \* result of fetch_wheresthematch_matches()
    daddylive,    \* result of fetch_daddylive_matches()
    allfootball,  \* result of fetch_allfootball_matches()
    idx,          \* merge loop: number of primary records already visited
    merged,       \* the list `merged`
    report,       \* matches.txt: [written, blocks]
    errors,       \* the set of sources whose fetch logged an error
    call          \* last direct call of a helper: [fn, ..., result]; fn = "none" before any

vars == <<pc, bannedFile, banned, page, wtmPage, dlPage, afPage, onefootball, wtm,
          daddylive, allfootball, idx, merged, report, errors, call>>

\* Python's None where a string is expected: a string no text equals
None == <<"None">>

----------------------------------------------------------------------------
(* Characters and strings *)

UpperLetters == <<"A","B","C","D","E","F","G","H","I","J","K","L","M",
                  "N","O","P","Q","R","S","T","U","V","W","X","Y","Z">>
LowerLetters == <<"a","b","c","d","e","f","g","h","i","j","k","l","m",
                  "n","o","p","q","r","s","t","u","v","w","x","y","z">>

\* Code points outside ASCII that the model knows: U+00E7, U+00E9, U+00DF and
\* the combining marks U+0327, U+0301 their decompositions produce.
NonAscii == {"c_cedilla", "e_acute", "sharp_s", "comb_cedilla", "comb_acute"}

UpperSet == { UpperLetters[i] : i \in 1..26 }
LowerSet == { LowerLetters[i] : i \in 1..26 }
LowerOf == [c \in UpperSet |-> LowerLetters[CHOOSE i \in 1..26 : UpperLetters[i] = c]]

IsLowerLetter(c) == c \in LowerSet

\* str.lower() on one character
LowerChar(c) == IF c \in UpperSet THEN LowerOf[c] ELSE c

\* str.lower()
Lower(s) == [i \in 1..Len(s) |-> LowerChar(s[i])]

\* unicodedata.normalize("NFKD", .) on one character
NfkdChar(c) ==
    CASE c = "c_cedilla" -> <<"c", "comb_cedilla">>
      [] c = "e_acute"   -> <<"e", "comb_acute">>
      [] OTHER           -> <<c>>

RECURSIVE Nfkd(_)
Nfkd(s) == IF s = <<>> THEN <<>> ELSE NfkdChar(Head(s)) \o Nfkd(Tail(s))

\* .encode("ascii", "ignore").decode("utf-8")
AsciiIgnore(s) == SelectSeq(s, LAMBDA c : c \notin NonAscii)

\* re.sub(r"[^a-z ]", " ", n)
LettersOnly(s) == [i \in 1..Len(s) |-> IF IsLowerLetter(s[i]) \/ s[i] = " " THEN s[i] ELSE " "]

\* str.split(): the maximal runs of non-space characters, in order
RECURSIVE SplitFrom(_, _, _)
SplitFrom(s, i, cur) ==
    IF i > Len(s) THEN (IF cur = <<>> THEN <<>> ELSE <<cur>>)
    ELSE IF s[i] = " "
         THEN (IF cur = <<>> THEN <<>> ELSE <<cur>>) \o SplitFrom(s, i + 1, <<>>)
         ELSE SplitFrom(s, i + 1, Append(cur, s[i]))

Split(s) == SplitFrom(s, 1, <<>>)

\* " ".join(tokens)
RECURSIVE Join(_)
Join(toks) ==
    IF toks = <<>> THEN <<>>
    ELSE IF Len(toks) = 1 THEN toks[1]
    ELSE toks[1] \o <<" ">> \o Join(Tail(toks))

\* re.sub(r"\s+", " ", n): every run of spaces becomes one space
RECURSIVE Collapse(_)
Collapse(s) ==
    IF Len(s) < 2 THEN s
    ELSE IF s[1] = " " /\ s[2] = " " THEN Collapse(Tail(s))
    ELSE <<s[1]>> \o Collapse(Tail(s))

\* str.strip()
RECURSIVE LStrip(_)
LStrip(s) == IF s /= <<>> /\ s[1] = " " THEN LStrip(Tail(s)) ELSE s

RECURSIVE RStrip(_)
RStrip(s) == IF s /= <<>> /\ s[Len(s)] = " " THEN RStrip(SubSeq(s, 1, Len(s) - 1)) ELSE s

Strip(s) == RStrip(LStrip(s))

stopwords == { <<"f","c">>, <<"c","f">>, <<"c","l","u","b">>, <<"t","h","e">>,
               <<"t","e","a","m">>, <<"d","e","p","o","r","t","i","v","o">> }

\* the comprehension of line 63
DropStopwords(toks) == SelectSeq(toks, LAMBDA t : t \notin stopwords)

\* variant: stopwords are dropped before the characters that are no letters are blanked
normalize_stopwords_first(name) ==
    LET n0 == IF name = None THEN <<>> ELSE name
        n1 == Lower(AsciiIgnore(Nfkd(n0)))
        n2 == Join(DropStopwords(Split(n1)))
    IN  Strip(Collapse(LettersOnly(n2)))

normalize_team_name(name) ==
    LET n0 == IF name = None THEN <<>> ELSE name
        n1 == Lower(AsciiIgnore(Nfkd(n0)))
        n2 == LettersOnly(n1)
        n3 == Strip(Collapse(n2))
    IN  Join(DropStopwords(Split(n3)))

----------------------------------------------------------------------------
(* rapidfuzz: fuzz.ratio and fuzz.partial_ratio, as comparisons with a cutoff *)

Max(a, b) == IF a >= b THEN a ELSE b

\* one row of the longest-common-subsequence table: c is left out, or paired with
\* the last equal character b[k], k <= j (prev is nondecreasing)
LcsRow(prev, c, b) ==
    [j \in 1..Len(b) |->
        LET ks == { k \in 1..j : b[k] = c }
        IN  IF ks = {} THEN prev[j]
            ELSE LET k == CHOOSE k \in ks : \A l \in ks : l <= k
                 IN  Max(prev[j], (IF k = 1 THEN 0 ELSE prev[k - 1]) + 1)]

RECURSIVE LcsRows(_, _, _, _)
LcsRows(a, i, b, prev) ==
    IF i > Len(a) THEN prev
    ELSE LcsRows(a, i + 1, b, LcsRow(prev, a[i], b))

LcsLen(a, b) ==
    IF a = <<>> \/ b = <<>> THEN 0
    ELSE LcsRows(a, 1, b, [j \in 1..Len(b) |-> 0])[Len(b)]

\* fuzz.ratio(a, b) >= cutoff: the ratio is 100 * 2 * lcs / (len(a) + len(b))
RatioAtLeast(a, b, cutoff) ==
    IF Len(a) + Len(b) = 0 THEN TRUE
    ELSE 200 * LcsLen(a, b) >= cutoff * (Len(a) + Len(b))

\* the windows of the longer string that partial_ratio aligns the shorter one to:
\* its proper prefixes shorter than the needle, every full-length window, every
\* suffix not longer than the needle
Windows(m, long) ==
    LET n == Len(long)
    IN  { SubSeq(long, 1, i) : i \in 1..(m - 1) }
        \cup { SubSeq(long, i + 1, i + m) : i \in 0..(n - m) }
        \cup { SubSeq(long, i + 1, n) : i \in (n - m)..(n - 1) }

PartialImpl(short, long, cutoff) ==
    \E w \in Windows(Len(short), long) : RatioAtLeast(short, w, cutoff)

\* fuzz.partial_ratio(a, b) >= cutoff
PartialRatioAtLeast(a, b, cutoff) ==
    IF a = <<>> \/ b = <<>> THEN a = b
    ELSE IF Len(a) < Len(b) THEN PartialImpl(a, b, cutoff)
    ELSE IF Len(a) > Len(b) THEN PartialImpl(b, a, cutoff)
    ELSE PartialImpl(a, b, cutoff) \/ PartialImpl(b, a, cutoff)

----------------------------------------------------------------------------
(* Name helpers *)

\* t1 in t2
Contains(sub, s) ==
    \E i \in 0..(Len(s) - Len(sub)) : SubSeq(s, i + 1, i + Len(sub)) = sub

TokenSet(s) == LET toks == Split(s) IN { toks[i] : i \in 1..Len(toks) }

names_equivalent(n1, n2) ==
    LET t1 == normalize_team_name(n1)
        t2 == normalize_team_name(n2)
    IN  IF t1 = <<>> \/ t2 = <<>> THEN FALSE
        ELSE IF TokenSet(t1) \cap TokenSet(t2) /= {} THEN TRUE
        ELSE IF RatioAtLeast(t1, t2, 80) \/ PartialRatioAtLeast(t1, t2, 80) THEN TRUE
        ELSE Contains(t1, t2) \/ Contains(t2, t1)

teams_match(h1, a1, h2, a2) == names_equivalent(h1, h2) /\ names_equivalent(a1, a2)

----------------------------------------------------------------------------
(* Filter rules *)

\* line.strip() of a line of banned.txt (spaces stand for all whitespace)
RECURSIVE LoadLines(_)
LoadLines(lines) ==
    IF lines = <<>> THEN {}
    ELSE (IF Strip(Head(lines)) /= <<>> THEN {Lower(Strip(Head(lines)))} ELSE {})
         \cup LoadLines(Tail(lines))

load_banned_tournaments(file) == IF ~ file.exists THEN {} ELSE LoadLines(file.lines)

AgeMarkers == << <<"u","1","8">>, <<"u","1","9">>, <<"u","2","0">>, <<"u","2","1">>,
                 <<"u","2","3">>, <<"y","o","u","t","h">>,
                 <<"r","e","s","e","r","v","e">>, <<"r","e","s","e","r","v","e","s">>,
                 <<"a","c","a","d","e","m","y">> >>

Women == <<"w","o","m","e","n">>
Nwsl == <<"n","w","s","l">>

\* variant: the competition is compared as written, not in lowercase
is_banned_case_sensitive(home, away, competition, bannedSet) ==
    LET lname == IF competition = None THEN <<>> ELSE competition
    IN  IF lname \in bannedSet THEN TRUE
        ELSE IF Contains(Women, lname) \/ Contains(Nwsl, lname) THEN TRUE
        ELSE IF \E k \in 1..Len(AgeMarkers) : Contains(AgeMarkers[k], lname) THEN TRUE
        ELSE IF Contains(Women, Lower(home)) \/ Contains(Women, Lower(away)) THEN TRUE
        ELSE FALSE

is_banned_match(home, away, competition, bannedSet) ==
    LET lname == Lower(IF competition = None THEN <<>> ELSE competition)
    IN  IF lname \in bannedSet THEN TRUE
        ELSE IF Contains(Women, lname) \/ Contains(Nwsl, lname) THEN TRUE
        ELSE IF \E k \in 1..Len(AgeMarkers) : Contains(AgeMarkers[k], lname) THEN TRUE
        ELSE IF Contains(Women, Lower(home)) \/ Contains(Women, Lower(away)) THEN TRUE
        ELSE FALSE

----------------------------------------------------------------------------
(* Source adapters *)

\* a kickoff text that does not have the form %Y-%m-%dT%H:%M:%SZ
BadKickoff == [parses |-> FALSE, day |-> 0, hour |-> 0, min |-> 0, sec |-> 0]

\* datetime.strptime(mc["kickoff"], "%Y-%m-%dT%H:%M:%SZ"), moved to Africa/Nairobi
\* (UTC+3, no daylight saving) and printed with "%Y-%m-%d %H:%M": the seconds are
\* dropped and the date rolls over after 21:00 UTC.  A kickoff string is <<day, hour, minute>>.
KickoffStr(k) == << k.day + ((k.hour + 3) \div 24), (k.hour + 3) % 24, k.min >>

OfRecord(mc) ==
    [match_id |-> mc.matchId, home |-> mc.home, away |-> mc.away,
     competition |-> mc.competition, kickoff |-> KickoffStr(mc.kickoff)]

\* the loop over the match cards: the first kickoff that does not parse raises, and the
\* except of line 126 ends the loop with the matches appended so far
RECURSIVE OfLoop(_, _)
OfLoop(cards, matches) ==
    IF cards = <<>> THEN [matches |-> matches, error |-> FALSE]
    ELSE IF ~ Head(cards).kickoff.parses THEN [matches |-> matches, error |-> TRUE]
    ELSE OfLoop(Tail(cards), Append(matches, OfRecord(Head(cards))))

\* variant: a card whose kickoff does not parse is left out and the loop goes on
RECURSIVE OfLoopSkipping(_, _)
OfLoopSkipping(cards, matches) ==
    IF cards = <<>> THEN matches
    ELSE IF ~ Head(cards).kickoff.parses THEN OfLoopSkipping(Tail(cards), matches)
    ELSE OfLoopSkipping(Tail(cards), Append(matches, OfRecord(Head(cards))))

fetch_onefootball_skipping(cards) ==
    [matches |-> OfLoopSkipping(cards, <<>>),
     error |-> \E i \in 1..Len(cards) : ~ cards[i].kickoff.parses]

fetch_onefootball_matches(cards) == OfLoop(cards, <<>>)

NotSpecified == <<"N","o","t"," ","s","p","e","c","i","f","i","e","d">>

\* one <tr> of the WherestheMatch table: the img titles of its channel cell
WtmRecord(row) ==
    [home |-> Strip(row.home), away |-> Strip(row.away), competition |-> row.competition,
     channels |-> IF row.titles = <<>> THEN <<NotSpecified>> ELSE row.titles]

fetch_wheresthematch_matches(rows) == [i \in 1..Len(rows) |-> WtmRecord(rows[i])]

ExtraStream == <<"e","x","t","r","a"," ","s","t","r","e","a","m">>

\* line 209: an event without channels, or with only "extra stream" channels, is dropped
DlKept(e) ==
    ~ (e.channels = <<>>
       \/ \A i \in 1..Len(e.channels) : Contains(ExtraStream, Lower(e.channels[i])))

DlRecord(e) ==
    [home |-> Strip(e.home), away |-> Strip(e.away), competition |-> Strip(e.competition),
     channels |-> e.channels]

RECURSIVE fetch_daddylive_matches(_)
fetch_daddylive_matches(events) ==
    IF events = <<>> THEN <<>>
    ELSE (IF DlKept(Head(events)) THEN <<DlRecord(Head(events))>> ELSE <<>>)
         \o fetch_daddylive_matches(Tail(events))

\* AllFootball records carry no "channels" key.  date is "today", "other" (skipped) or
\* "bad" (strptime raises, and the except of line 253 ends the loop)
RECURSIVE AfLoop(_, _)
AfLoop(entries, matches) ==
    IF entries = <<>> THEN [matches |-> matches, error |-> FALSE]
    ELSE IF Head(entries).date = "bad" THEN [matches |-> matches, error |-> TRUE]
    ELSE IF Head(entries).date /= "today" THEN AfLoop(Tail(entries), matches)
    ELSE AfLoop(Tail(entries),
                Append(matches, [home |-> Head(entries).home, away |-> Head(entries).away,
                                 competition |-> Head(entries).competition]))

fetch_allfootball_matches(entries) == AfLoop(entries, <<>>)

----------------------------------------------------------------------------
(* Merge *)

\* src.get("channels", [])
ChannelsOf(src) == IF "channels" \in DOMAIN src THEN src.channels ELSE <<>>

\* variant: an auxiliary record the competition filter flags is passed over
RECURSIVE AccumulateFiltered(_, _)
AccumulateFiltered(om, srcs) ==
    IF srcs = <<>> THEN <<>>
    ELSE (IF /\ teams_match(om.home, om.away, Head(srcs).home, Head(srcs).away)
             /\ ~ is_banned_match(Head(srcs).home, Head(srcs).away,
                                  Head(srcs).competition, banned)
          THEN ChannelsOf(Head(srcs)) ELSE <<>>)
         \o AccumulateFiltered(om, Tail(srcs))

\* lines 270-273: the channels of every auxiliary record that matches om, in scan order
RECURSIVE Accumulate(_, _)
Accumulate(om, srcs) ==
    IF srcs = <<>> THEN <<>>
    ELSE (IF teams_match(om.home, om.away, Head(srcs).home, Head(srcs).away)
          THEN ChannelsOf(Head(srcs)) ELSE <<>>)
         \o Accumulate(om, Tail(srcs))

\* variant: channel names are compared as written
RECURSIVE DedupCaseSensitive(_, _, _)
DedupCaseSensitive(channels, seen, clean) ==
    IF channels = <<>> THEN clean
    ELSE LET ch == Head(channels)
         IN  IF ch /= <<>> /\ ch \notin seen
             THEN DedupCaseSensitive(Tail(channels), seen \cup {ch}, Append(clean, ch))
             ELSE DedupCaseSensitive(Tail(channels), seen, clean)

\* lines 275-279
RECURSIVE Dedup(_, _, _)
Dedup(channels, seen, clean) ==
    IF channels = <<>> THEN clean
    ELSE LET ch == Head(channels)
         IN  IF ch /= <<>> /\ Lower(ch) \notin seen
             THEN Dedup(Tail(channels), seen \cup {Lower(ch)}, Append(clean, ch))
             ELSE Dedup(Tail(channels), seen, clean)

\* variant: no placeholder for an empty list
ResolveChannelsNoDefault(om, srcs) == Dedup(Accumulate(om, srcs), {}, <<>>)

\* line 281
ResolveChannels(om, srcs) ==
    LET clean == Dedup(Accumulate(om, srcs), {}, <<>>)
    IN  IF clean = <<>> THEN <<NotSpecified>> ELSE clean

\* datetime.strptime(m["kickoff"], "%Y-%m-%d %H:%M"), as minutes
KickoffKey(m) == (m.kickoff[1] * 24 + m.kickoff[2]) * 60 + m.kickoff[3]

\* list.sort(key=...): stable, ascending
RECURSIVE InsertSorted(_, _)
InsertSorted(sorted, m) ==
    IF sorted = <<>> THEN <<m>>
    ELSE IF KickoffKey(sorted[Len(sorted)]) <= KickoffKey(m) THEN Append(sorted, m)
    ELSE Append(InsertSorted(SubSeq(sorted, 1, Len(sorted) - 1), m), sorted[Len(sorted)])

RECURSIVE SortFrom(_, _)
SortFrom(list, sorted) ==
    IF list = <<>> THEN sorted ELSE SortFrom(Tail(list), InsertSorted(sorted, Head(list)))

\* variant: the list is left in page order
SortByKickoffOmitted(list) == list

SortByKickoff(list) == SortFrom(list, <<>>)

----------------------------------------------------------------------------
(* The script *)

\* line 41, at import
LoadBanned ==
    /\ pc = "load"
    /\ banned' = load_banned_tournaments(bannedFile)
    /\ pc' = "main"
    /\ UNCHANGED <<bannedFile, page, wtmPage, dlPage, afPage, onefootball, wtm, daddylive,
                   allfootball, idx, merged, report, errors, call>>

\* line 260
FetchOneFootball ==
    /\ pc = "main"
    /\ LET r == fetch_onefootball_matches(page)
       IN  /\ onefootball' = r.matches
           /\ errors' = IF r.error THEN errors \cup {"onefootball"} ELSE errors
    /\ pc' = "wtm"
    /\ UNCHANGED <<bannedFile, banned, page, wtmPage, dlPage, afPage, wtm, daddylive,
                   allfootball, idx, merged, report, call>>

\* line 261
FetchWtm ==
    /\ pc = "wtm"
    /\ wtm' = fetch_wheresthematch_matches(wtmPage)
    /\ pc' = "dl"
    /\ UNCHANGED <<bannedFile, banned, page, wtmPage, dlPage, afPage, onefootball, daddylive,
                   allfootball, idx, merged, report, errors, call>>

\* line 262
FetchDaddyLive ==
    /\ pc = "dl"
    /\ daddylive' = fetch_daddylive_matches(dlPage)
    /\ pc' = "af"
    /\ UNCHANGED <<bannedFile, banned, page, wtmPage, dlPage, afPage, onefootball, wtm,
                   allfootball, idx, merged, report, errors, call>>

\* line 263
FetchAllFootball ==
    /\ pc = "af"
    /\ LET r == fetch_allfootball_matches(afPage)
       IN  /\ allfootball' = r.matches
           /\ errors' = IF r.error THEN errors \cup {"allfootball"} ELSE errors
    /\ pc' = "merge"
    /\ UNCHANGED <<bannedFile, banned, page, wtmPage, dlPage, afPage, onefootball, wtm,
                   daddylive, idx, merged, report, call>>

\* variant: a banned record is emitted like any other
MergeSkipEmits ==
    /\ pc = "merge"
    /\ idx < Len(onefootball)
    /\ LET om == onefootball[idx + 1]
       IN  /\ is_banned_match(om.home, om.away, om.competition, banned)
           /\ LET row == [channels |-> ResolveChannels(om, wtm \o daddylive \o allfootball)]
                         @@ om
              IN  \* om is the dict of the list onefootball: the channels are set on it
                  /\ onefootball' = [onefootball EXCEPT ![idx + 1] = row]
                  /\ merged' = Append(merged, row)
    /\ idx' = idx + 1
    /\ UNCHANGED <<pc, bannedFile, banned, page, wtmPage, dlPage, afPage, wtm,
                   daddylive, allfootball, report, errors, call>>

\* lines 266-268: one iteration of the loop, on a banned record
MergeSkip ==
    /\ pc = "merge"
    /\ idx < Len(onefootball)
    /\ LET om == onefootball[idx + 1]
       IN  is_banned_match(om.home, om.away, om.competition, banned)
    /\ idx' = idx + 1
    /\ UNCHANGED <<pc, bannedFile, banned, page, wtmPage, dlPage, afPage, onefootball, wtm,
                   daddylive, allfootball, merged, report, errors, call>>

\* lines 266-282: one iteration of the loop, on a record that is kept
MergeEmit ==
    /\ pc = "merge"
    /\ idx < Len(onefootball)
    /\ LET om == onefootball[idx + 1]
       IN  /\ ~ is_banned_match(om.home, om.away, om.competition, banned)
           /\ LET row == [channels |-> ResolveChannels(om, wtm \o daddylive \o allfootball)]
                         @@ om
              IN  \* om is the dict of the list onefootball: the channels are set on it
                  /\ onefootball' = [onefootball EXCEPT ![idx + 1] = row]
                  /\ merged' = Append(merged, row)
    /\ idx' = idx + 1
    /\ UNCHANGED <<pc, bannedFile, banned, page, wtmPage, dlPage, afPage, wtm,
                   daddylive, allfootball, report, errors, call>>

\* line 284
SortMerged ==
    /\ pc = "merge"
    /\ idx = Len(onefootball)
    /\ merged' = SortByKickoff(merged)
    /\ pc' = "write"
    /\ UNCHANGED <<bannedFile, banned, page, wtmPage, dlPage, afPage, onefootball, wtm,
                   daddylive, allfootball, idx, report, errors, call>>

\* lines 288-299: one block per merged match, in list order
WriteReport ==
    /\ pc = "write"
    /\ report' = [written |-> TRUE, blocks |-> merged]
    /\ pc' = "done"
    /\ UNCHANGED <<bannedFile, banned, page, wtmPage, dlPage, afPage, onefootball, wtm,
                   daddylive, allfootball, idx, merged, errors, call>>

\* lines 300-301: matches.txt cannot be opened; the error is logged
WriteReportFails ==
    /\ pc = "write"
    /\ errors' = errors \cup {"write"}
    /\ pc' = "done"
    /\ UNCHANGED <<bannedFile, banned, page, wtmPage, dlPage, afPage, onefootball, wtm,
                   daddylive, allfootball, idx, merged, report, call>>

Next ==
    \/ LoadBanned
    \/ FetchOneFootball
    \/ FetchWtm
    \/ FetchDaddyLive
    \/ FetchAllFootball
    \/ MergeSkip
    \/ MergeEmit
    \/ SortMerged
    \/ WriteReport
    \/ WriteReportFails

----------------------------------------------------------------------------
(* Texts the inputs are drawn from *)

Arsenal == <<"A","r","s","e","n","a","l">>
Chelsea == <<"C","h","e","l","s","e","a">>
ArsenalFC == <<"A","r","s","e","n","a","l"," ","F","C">>
ChelseaFC == <<"C","h","e","l","s","e","a"," ","F","C">>
ArsenalWomen == <<"A","r","s","e","n","a","l"," ","W","o","m","e","n">>
ChelseaWomen == <<"C","h","e","l","s","e","a"," ","W","o","m","e","n">>
RealMadrid == <<"R","e","a","l"," ","M","a","d","r","i","d">>
RealSociedad == <<"R","e","a","l"," ","S","o","c","i","e","d","a","d">>
ManchesterUnitedFC == <<"M","a","n","c","h","e","s","t","e","r"," ","U","n","i","t","e","d"," ","F","C">>
ManUtd == <<"M","a","n"," ","U","t","d">>
ManchesterCity == <<"M","a","n","c","h","e","s","t","e","r"," ","C","i","t","y">>
Everton == <<"E","v","e","r","t","o","n">>
ChelseaWOMEN == <<"C","h","e","l","s","e","a"," ","W","O","M","E","N">>
TheFC == <<"T","h","e"," ","F","C">>
PremierLeague == <<"P","r","e","m","i","e","r"," ","L","e","a","g","u","e">>
FaCup == <<"F","A"," ","C","u","p">>
FaCupUpper == <<"F","A"," ","C","U","P">>
FaCupReplay == <<"F","A"," ","C","u","p"," ","R","e","p","l","a","y">>
UefaYouthLeague == <<"U","E","F","A"," ","Y","o","u","t","h"," ","L","e","a","g","u","e">>
NWSLCup == <<"N","W","S","L"," ","C","u","p">>
WomensCup == <<"W","o","m","e","n","s"," ","C","u","p">>
U18Cup == <<"U","1","8"," ","C","u","p">>
U19Cup == <<"U","1","9"," ","C","u","p">>
U20Cup == <<"U","2","0"," ","C","u","p">>
U21Euro == <<"U","2","1"," ","E","u","r","o">>
U23Cup == <<"U","2","3"," ","C","u","p">>
ReserveLeague == <<"R","e","s","e","r","v","e"," ","L","e","a","g","u","e">>
AcademyCup == <<"A","c","a","d","e","m","y"," ","C","u","p">>
Unknown == <<"U","n","k","n","o","w","n">>
Sky == <<"S","k","y">>
SkyLower == <<"s","k","y">>
SkyUpper == <<"S","K","Y">>
BTSport == <<"B","T"," ","S","p","o","r","t">>
BBC == <<"B","B","C">>
ESPN == <<"E","S","P","N">>
ExtraStream1 == <<"E","x","t","r","a"," ","S","t","r","e","a","m"," ","1">>
FaCupLine == <<"F","A"," ","C","u","p"," ">>
BlankLine == <<" "," ">>
ArsenalCedilla == <<"A","r","s","e","n","a","l"," ","F","c_cedilla">>

----------------------------------------------------------------------------
(* Inputs *)

MaxPrimary == 3
MaxAux == 2
MaxNameLen == 4

SeqsUpTo(S, n) == UNION { [1..k -> S] : k \in 0..n }

Fixtures ==
    { [home |-> Arsenal, away |-> Chelsea, competition |-> PremierLeague],
      [home |-> Chelsea, away |-> Arsenal, competition |-> FaCup] }

\* kickoffs as the page gives them, in UTC
Kickoffs ==
    { [parses |-> TRUE, day |-> 1, hour |-> 20, min |-> 0, sec |-> 0],
      [parses |-> TRUE, day |-> 1, hour |-> 22, min |-> 30, sec |-> 0],
      [parses |-> TRUE, day |-> 1, hour |-> 9, min |-> 15, sec |-> 30],
      BadKickoff }

\* a page of match cards; matchId numbers the cards of the page
Card(f, k, id) ==
    [matchId |-> id, home |-> f.home, away |-> f.away, competition |-> f.competition,
     kickoff |-> k]

Pages ==
    { [i \in 1..Len(fs) |-> Card(fs[i][1], fs[i][2], i)] :
        fs \in SeqsUpTo(Fixtures \X Kickoffs, MaxPrimary) }

OnePage(f) == << Card(f, [parses |-> TRUE, day |-> 1, hour |-> 20, min |-> 0, sec |-> 0], 1) >>

WtmRows ==
    { [home |-> ArsenalFC, away |-> ChelseaFC, competition |-> PremierLeague,
       titles |-> <<Sky, BTSport>>],
      [home |-> Arsenal, away |-> Chelsea, competition |-> Unknown, titles |-> <<>>],
      [home |-> ArsenalWomen, away |-> ChelseaWomen, competition |-> WomensCup,
       titles |-> <<ESPN>>] }

DlEvents ==
    { [home |-> Arsenal, away |-> Chelsea, competition |-> PremierLeague,
       channels |-> <<SkyLower, SkyUpper>>],
      [home |-> ArsenalFC, away |-> Chelsea, competition |-> PremierLeague,
       channels |-> <<ExtraStream1>>],
      [home |-> Arsenal, away |-> ChelseaFC, competition |-> PremierLeague,
       channels |-> << <<>> >>] }

AfToday == [home |-> Arsenal, away |-> Chelsea, competition |-> PremierLeague, date |-> "today"]
AfOther == [home |-> RealMadrid, away |-> Chelsea, competition |-> FaCup, date |-> "other"]
AfBad == [home |-> Everton, away |-> Chelsea, competition |-> PremierLeague, date |-> "bad"]

NoFile == [exists |-> FALSE, lines |-> <<>>]
FileFaCup == [exists |-> TRUE, lines |-> <<FaCupLine, BlankLine, <<>> >>]
FilePremier == [exists |-> TRUE, lines |-> <<PremierLeague>>]

InitWith(files, pages, wtmPages, dlPages, afPages) ==
    /\ pc = "load"
    /\ bannedFile \in files
    /\ banned = {}
    /\ page \in pages
    /\ wtmPage \in wtmPages
    /\ dlPage \in dlPages
    /\ afPage \in afPages
    /\ onefootball = <<>>
    /\ wtm = <<>>
    /\ daddylive = <<>>
    /\ allfootball = <<>>
    /\ idx = 0
    /\ merged = <<>>
    /\ report = [written |-> FALSE, blocks |-> <<>>]
    /\ errors = {}
    /\ call = [fn |-> "none"]

\* the women's fixture of one auxiliary source next to the men's fixture of another
WtmFixed == << [home |-> ArsenalFC, away |-> ChelseaFC, competition |-> PremierLeague,
                titles |-> <<BBC>>],
               [home |-> ArsenalWomen, away |-> ChelseaWomen, competition |-> WomensCup,
                titles |-> <<ESPN>>] >>

\* any page of the primary source, fixed auxiliary pages
Init == InitWith({FileFaCup}, Pages, {WtmFixed}, {<<>>}, { <<AfToday>> })

Spec == Init /\ [][Next]_vars

AuxFixtures ==
    { [home |-> Arsenal, away |-> Chelsea, competition |-> PremierLeague],
      [home |-> Chelsea, away |-> Arsenal, competition |-> Unknown],
      [home |-> ArsenalWomen, away |-> ChelseaWomen, competition |-> Unknown] }

\* one card on the primary page, any auxiliary pages
InitAux ==
    InitWith({FileFaCup}, { OnePage(f) : f \in AuxFixtures },
             SeqsUpTo(WtmRows, MaxAux), SeqsUpTo(DlEvents, MaxAux),
             { <<AfOther, AfToday, AfBad, AfToday>> })

SpecAux == InitAux /\ [][Next]_vars

----------------------------------------------------------------------------
(* Direct calls of the helpers *)

InitCalls(files) == InitWith(files, {<<>>}, {<<>>}, {<<>>}, {<<>>})

NormAlphabet == {"f", "c", "F", " ", "1", "c_cedilla", "sharp_s"}

NormInputs == SeqsUpTo(NormAlphabet, MaxNameLen) \cup {None}

NormalizeCall ==
    /\ call.fn = "none"
    /\ \E x \in NormInputs :
         call' = [fn |-> "normalize", arg |-> x, first |-> normalize_team_name(x),
                  result |-> normalize_team_name(x), twice |-> FALSE]
    /\ UNCHANGED <<pc, bannedFile, banned, page, wtmPage, dlPage, afPage, onefootball, wtm,
                   daddylive, allfootball, idx, merged, report, errors>>

\* normalize_team_name applied to its own result
NormalizeAgain ==
    /\ call.fn = "normalize"
    /\ ~ call.twice
    /\ call' = [call EXCEPT !.result = normalize_team_name(call.result), !.twice = TRUE]
    /\ UNCHANGED <<pc, bannedFile, banned, page, wtmPage, dlPage, afPage, onefootball, wtm,
                   daddylive, allfootball, idx, merged, report, errors>>

NextNormalize == NormalizeCall \/ NormalizeAgain

SpecNormalize == InitCalls({NoFile}) /\ [][NextNormalize]_vars

Names == { Arsenal, ArsenalFC, ArsenalWomen, ArsenalCedilla, Chelsea, ChelseaFC, RealMadrid,
           RealSociedad, ManchesterUnitedFC, ManUtd, ManchesterCity, Everton, TheFC, None }

NamesEquivalentCall ==
    /\ call.fn = "none"
    /\ \E n1 \in Names, n2 \in Names :
         call' = [fn |-> "names_equivalent", n1 |-> n1, n2 |-> n2,
                  result |-> names_equivalent(n1, n2)]
    /\ UNCHANGED <<pc, bannedFile, banned, page, wtmPage, dlPage, afPage, onefootball, wtm,
                   daddylive, allfootball, idx, merged, report, errors>>

NextNames == NamesEquivalentCall

SpecNames == InitCalls({NoFile}) /\ [][NextNames]_vars

BanTeams == { Arsenal, ChelseaWomen, ChelseaWOMEN }

BanCompetitions ==
    { None, <<>>, PremierLeague, FaCup, FaCupUpper, FaCupLine, FaCupReplay, UefaYouthLeague,
      NWSLCup, WomensCup, U18Cup, U19Cup, U20Cup, U21Euro, U23Cup, ReserveLeague,
      AcademyCup }

IsBannedCall ==
    /\ pc = "main"
    /\ call.fn = "none"
    /\ \E h \in BanTeams, a \in BanTeams, c \in BanCompetitions :
         call' = [fn |-> "is_banned_match", home |-> h, away |-> a, competition |-> c,
                  result |-> is_banned_match(h, a, c, banned)]
    /\ UNCHANGED <<pc, bannedFile, banned, page, wtmPage, dlPage, afPage, onefootball, wtm,
                   daddylive, allfootball, idx, merged, report, errors>>

NextBanned == LoadBanned \/ IsBannedCall

SpecBanned == InitCalls({NoFile, FileFaCup, FilePremier}) /\ [][NextBanned]_vars

----------------------------------------------------------------------------
(* Properties *)

Finished == pc \in {"write", "done"}

Banned(om) == is_banned_match(om.home, om.away, om.competition, banned)

\* a row without the channels the merge set
Carried(m) == [f \in DOMAIN m \ {"channels"} |-> m[f]]

RowsOf(om) == { j \in 1..Len(merged) : Carried(merged[j]) = Carried(om) }

\* C1: when the merge has finished, every primary record that is not banned has
\* exactly one row, a banned one has none, every row is a primary record with its
\* fields as fetched, and the report written is that list
C1_OutputRows ==
    Finished =>
        /\ \A i \in 1..Len(onefootball) :
              Cardinality(RowsOf(onefootball[i])) = IF Banned(onefootball[i]) THEN 0 ELSE 1
        /\ \A j \in 1..Len(merged) :
              /\ "channels" \in DOMAIN merged[j]
              /\ \E i \in 1..Len(onefootball) :
                    /\ Carried(merged[j]) = Carried(onefootball[i])
                    /\ Carried(merged[j]) = OfRecord(page[i])
        /\ Len(merged) = Cardinality({ i \in 1..Len(onefootball) : ~ Banned(onefootball[i]) })
        /\ report.written => report.blocks = merged

C1_Witness ==
    /\ pc = "done"
    /\ report.written
    /\ Len(onefootball) = 3
    /\ Len(merged) = 2
    /\ Banned(onefootball[2])

AuxScan == wtm \o daddylive \o allfootball

RECURSIVE Concat(_)
Concat(ss) == IF ss = <<>> THEN <<>> ELSE Head(ss) \o Concat(Tail(ss))

\* the channels of the auxiliary records whose teams match the row, in scan order
MatchedChannels(m) ==
    Concat([k \in 1..Len(AuxScan) |->
              IF teams_match(m.home, m.away, AuxScan[k].home, AuxScan[k].away)
              THEN ChannelsOf(AuxScan[k]) ELSE <<>>])

\* the first occurrence of every name, names compared in lowercase
RECURSIVE FirstOccurrences(_)
FirstOccurrences(chs) ==
    IF chs = <<>> THEN <<>>
    ELSE LET n == Len(chs)
             front == SubSeq(chs, 1, n - 1)
         IN  IF \E j \in 1..(n - 1) : Lower(chs[j]) = Lower(chs[n])
             THEN FirstOccurrences(front)
             ELSE Append(FirstOccurrences(front), chs[n])

NonEmpty(chs) == SelectSeq(chs, LAMBDA ch : ch /= <<>>)

\* C2 as stated: with a non-empty channel accumulated, the channels of a row are the
\* first occurrences of all the accumulated channels
C2_DedupOfAll ==
    pc = "done" =>
        \A j \in 1..Len(merged) :
            LET acc == MatchedChannels(merged[j])
            IN  NonEmpty(acc) /= <<>> => merged[j].channels = FirstOccurrences(acc)

\* C2: with a non-empty channel accumulated, the channels of a row are the first
\* occurrences of the non-empty accumulated channels; empty names are dropped
C2_DedupOfNonEmpty ==
    pc = "done" =>
        \A j \in 1..Len(merged) :
            LET acc == NonEmpty(MatchedChannels(merged[j]))
            IN  acc /= <<>> => merged[j].channels = FirstOccurrences(acc)

C2_Witness ==
    /\ pc = "done"
    /\ Len(merged) = 1
    /\ MatchedChannels(merged[1]) = <<Sky, BTSport, SkyLower, SkyUpper>>
    /\ merged[1].channels = <<Sky, BTSport>>

\* C3: a row with no matching auxiliary record, or whose matching records gave no
\* channel or only empty ones, has channels ["Not specified"]; no row has none
C3_NotSpecified ==
    /\ \A j \in 1..Len(merged) : merged[j].channels /= <<>>
    /\ pc = "done" =>
          \A j \in 1..Len(merged) :
              NonEmpty(MatchedChannels(merged[j])) = <<>>
                  => merged[j].channels = <<NotSpecified>>

C3_Witness ==
    /\ pc = "done"
    /\ Len(merged) = 1
    /\ MatchedChannels(merged[1]) = << <<>> >>
    /\ merged[1].channels = <<NotSpecified>>

CaseInsensitiveIn(ch, chs) == \E k \in 1..Len(chs) : Lower(chs[k]) = Lower(ch)

\* C4: an auxiliary record is_banned would flag is fetched like any other and gives
\* its channels to every row it matches; Arsenal v Chelsea with the auxiliary
\* records Arsenal FC v Chelsea FC [BBC] and Arsenal Women v Chelsea Women [ESPN]
\* has channels [BBC, ESPN]
C4_AuxNotFiltered ==
    /\ pc \in {"dl", "af", "merge", "write", "done"} => Len(wtm) = Len(wtmPage)
    /\ \A j \in 1..Len(merged) :
          (merged[j].home = Arsenal /\ merged[j].away = Chelsea)
              => merged[j].channels = <<BBC, ESPN>>
    /\ pc = "done" =>
        \A j \in 1..Len(merged) :
          \A k \in 1..Len(AuxScan) :
                (/\ is_banned_match(AuxScan[k].home, AuxScan[k].away,
                                    AuxScan[k].competition, banned)
                 /\ teams_match(merged[j].home, merged[j].away,
                                AuxScan[k].home, AuxScan[k].away))
                => \A c \in 1..Len(ChannelsOf(AuxScan[k])) :
                      \/ ChannelsOf(AuxScan[k])[c] = <<>>
                      \/ CaseInsensitiveIn(ChannelsOf(AuxScan[k])[c], merged[j].channels)

C4_Witness ==
    /\ pc = "done"
    /\ Len(merged) >= 1
    /\ merged[1].home = Arsenal
    /\ merged[1].away = Chelsea
    /\ merged[1].competition = PremierLeague
    /\ merged[1].channels = <<BBC, ESPN>>
    /\ \E k \in 1..Len(wtm) :
          /\ wtm[k].home = ArsenalWomen
          /\ is_banned_match(wtm[k].home, wtm[k].away, wtm[k].competition, banned)

ContainsCI(marker, text) == Contains(marker, Lower(text))

\* C5: is_banned_match is true exactly when the competition, in lowercase, is an entry
\* of the banned set, or contains women or nwsl, or contains an age-grade or reserve
\* marker, or the home or away name contains women; a missing competition counts as
\* the empty name
C5_IsBannedRules ==
    call.fn = "is_banned_match" =>
        LET comp == IF call.competition = None THEN <<>> ELSE call.competition
        IN  call.result <=>
              \/ \E e \in banned : e = Lower(comp)
              \/ ContainsCI(Women, comp)
              \/ ContainsCI(Nwsl, comp)
              \/ \E mk \in { <<"u","1","8">>, <<"u","1","9">>, <<"u","2","0">>,
                             <<"u","2","1">>, <<"u","2","3">>, <<"y","o","u","t","h">>,
                             <<"r","e","s","e","r","v","e">>,
                             <<"a","c","a","d","e","m","y">> } : ContainsCI(mk, comp)
              \/ ContainsCI(Women, call.home)
              \/ ContainsCI(Women, call.away)

C5_Witness ==
    /\ call.fn = "is_banned_match"
    /\ call.competition = FaCupUpper
    /\ call.home = Arsenal
    /\ call.away = Arsenal
    /\ banned = {Lower(FaCup)}
    /\ call.result

\* kickoff texts compared as dates and times
KickoffBefore(k1, k2) ==
    \/ k1[1] < k2[1]
    \/ k1[1] = k2[1] /\ k1[2] < k2[2]
    \/ k1[1] = k2[1] /\ k1[2] = k2[2] /\ k1[3] <= k2[3]

Ascending(list) ==
    \A j \in 1..(Len(list) - 1) : KickoffBefore(list[j].kickoff, list[j + 1].kickoff)

\* C6: the list the merge ends with, and the report written from it, is in ascending
\* order of kickoff whatever the order of the page (it holds the rows C1 describes)
C6_SortedByKickoff ==
    /\ Finished => Ascending(merged)
    /\ Finished =>
          \A i \in 1..Len(onefootball) :
              ~ Banned(onefootball[i]) => Cardinality(RowsOf(onefootball[i])) = 1
    /\ report.written => Ascending(report.blocks) /\ report.blocks = merged

\* kickoffs T2 < T1 < T3 on the page in the order T1, T2, T3 come out as T2, T1, T3
C6_Witness ==
    /\ pc = "done"
    /\ report.written
    /\ Len(onefootball) = 3
    /\ Len(report.blocks) = 3
    /\ KickoffKey(onefootball[2]) < KickoffKey(onefootball[1])
    /\ KickoffKey(onefootball[1]) < KickoffKey(onefootball[3])
    /\ report.blocks[1].match_id = 2
    /\ report.blocks[2].match_id = 1
    /\ report.blocks[3].match_id = 3

BadCards == { i \in 1..Len(page) : ~ page[i].kickoff.parses }

FirstBad == CHOOSE i \in BadCards : \A k \in BadCards : i <= k

C8_KnownDistinct ==
    (/\ call.fn = "names_equivalent"
     /\ call.n1 = RealMadrid
     /\ call.n2 = RealSociedad) => ~ call.result

IsWellFormed(t) ==
    /\ \A i \in 1..Len(t) : IsLowerLetter(t[i]) \/ t[i] = " "
    /\ t /= <<>> => t[1] /= " " /\ t[Len(t)] /= " "
    /\ \A i \in 1..(Len(t) - 1) : ~ (t[i] = " " /\ t[i + 1] = " ")
    /\ \A k \in 1..Len(Split(t)) : Split(t)[k] \notin stopwords

\* the words of a name: lowercase ASCII letters after decomposition, everything
\* else a separator
WordsOf(x) ==
    Split(LettersOnly(Lower(AsciiIgnore(Nfkd(IF x = None THEN <<>> ELSE x)))))

\* b is a with some elements left out, order kept
RECURSIVE IsSubsequence(_, _)
IsSubsequence(b, a) ==
    IF b = <<>> THEN TRUE
    ELSE IF a = <<>> THEN FALSE
    ELSE IF Head(a) = Head(b) THEN IsSubsequence(Tail(b), Tail(a))
    ELSE IsSubsequence(b, Tail(a))

\* C9: normalize_team_name gives, for every name and for None, a text of lowercase
\* letters and single spaces without leading, trailing or doubled space and without
\* stopword, whose words are the words of the name that are no stopwords, in order;
\* applied to its own result it gives the same text
C9_NormalizeIdempotent ==
    call.fn = "normalize" =>
        /\ IsWellFormed(call.result)
        /\ call.twice => call.result = call.first
        /\ ~ call.twice =>
              /\ IsSubsequence(Split(call.result), WordsOf(call.arg))
              /\ \A k \in 1..Len(WordsOf(call.arg)) :
                    WordsOf(call.arg)[k] \notin stopwords
                        => \E n \in 1..Len(Split(call.result)) :
                              Split(call.result)[n] = WordsOf(call.arg)[k]

C9_Witness ==
    /\ call.fn = "normalize"
    /\ call.twice
    /\ call.arg = <<"F", "c", " ", "c_cedilla">>
    /\ call.first = <<"c">>
    /\ call.result = <<"c">>

\* C10: "Not specified" is in the channels of a row only as their sole element
C10_PlaceholderAlone ==
    \A j \in 1..Len(merged) :
        (\E c \in 1..Len(merged[j].channels) : merged[j].channels[c] = NotSpecified)
            => merged[j].channels = <<NotSpecified>>

====
